---- MODULE Spec2Model ----
(***************************************************************************)
(* Models of the runnable snippets of the TypeScript course repository:    *)
(*   section9/linked-list.ts          LinkedList<T> / ListNode<T>          *)
(*   section4/calculator.ts           calculateInvestment, printResults    *)
(*   unnamed/part_002                 the logger / autobind decorators     *)
(*   section6/.../interfaces.ts       User2 and its validating setters     *)
(*   section8/generics.ts             mergeObj                             *)
(*   section8/README.md               Stack, NumberStack, LimitedStack     *)
(*   section6/README.md               Temperature                          *)
(* The snippets are independent programs: each has its own specification   *)
(* (SpecList, SpecCalc, SpecDeco, SpecUser, SpecMerge, SpecStack,          *)
(* SpecNumberStack, SpecLimitedStack, SpecTemp) over its own variables,    *)
(* and leaves the variables of the other snippets alone.                   *)
(***************************************************************************)
EXTENDS Integers, Sequences, FiniteSets

VARIABLES
    \* ---- section9/linked-list.ts ----
    nodes,      \* the heap of ListNode objects, in allocation order
    root,       \* LinkedList.root (a reference: index into nodes, or Undefined)
    tail,       \* LinkedList.tail
    length,     \* LinkedList.length
    added,      \* history: the arguments of the add calls made so far
    listOp,     \* the method of LinkedList called last
    printed,    \* what the last print() call wrote to the console
    returned,   \* what the last getNumberOfElements() call returned
    \* ---- section4/calculator.ts ----
    investment, \* the InvestmentData handed to calculateInvestment
    results,    \* the CalculationResult it returned
    calcConsole,\* what printResults wrote to the console
    calcPc,     \* position in the script: "start", "calculated", "printed"
    \* ---- unnamed/part_002 ----
    PersonBinding,  \* what the name Person is bound to (NoClass before the
                    \* class definition has been evaluated)
    loggerCalls,    \* number of invocations of logger so far
    autobindCalls,  \* number of invocations of autobind so far
    persons,        \* the instances made by new Person(), in creation order
    decoConsole,    \* the lines written to the console
    \* ---- section6/src/interfaces/interfaces.ts ----
    _firstName, \* User2._firstName
    _lastName,  \* User2._lastName
    userOp,     \* the last setter call: [op, arg]
    thrown,     \* the message of the Error that call threw, or "none"
    \* ---- section8/generics.ts: mergeObj ----
    objects,    \* the heap of objects; a reference is an index into it
    argA,       \* the reference passed as a (Undefined before the call)
    argB,       \* the reference passed as b
    merged,     \* the reference mergeObj returned (Undefined before the call)
    mergePc,    \* "start", "merged", then "modified" once merged was written to
    \* ---- section8/README.md: Stack, NumberStack, LimitedStack ----
    stackClass, \* the class the stack was made from
    limit,      \* LimitedStack.limit (Undefined for the other classes)
    items,      \* Stack.items
    stackOp,    \* the last call: [op, arg]
    stackRet,   \* what that call returned (Undefined for void and undefined)
    stackThrown,\* the Error that call threw, <<>> if none
    pushLog,    \* history: the items of the pushes that were carried out
    poppedIdx,  \* history: the positions in pushLog that a pop has taken
    \* ---- section6/README.md: Temperature ----
    _celsius,   \* Temperature._celsius
    tempOp,     \* the last accessor call: [op, arg]
    tempRet,    \* what the last getter call returned
    tempThrown  \* the message of the Error that call threw, or "none"

listVars == <<nodes, root, tail, length, added, listOp, printed, returned>>
calcVars == <<investment, results, calcConsole, calcPc>>
decoVars == <<PersonBinding, loggerCalls, autobindCalls, persons, decoConsole>>
userVars == <<_firstName, _lastName, userOp, thrown>>

mergeVars == <<objects, argA, argB, merged, mergePc>>

stackVars == <<stackClass, limit, items, stackOp, stackRet, stackThrown,
               pushLog, poppedIdx>>

tempVars == <<_celsius, tempOp, tempRet, tempThrown>>

vars == <<listVars, calcVars, decoVars, userVars, mergeVars, stackVars, tempVars>>

notList == <<calcVars, decoVars, userVars, mergeVars, stackVars, tempVars>>
notCalc == <<listVars, decoVars, userVars, mergeVars, stackVars, tempVars>>
notDeco == <<listVars, calcVars, userVars, mergeVars, stackVars, tempVars>>
notUser == <<listVars, calcVars, decoVars, mergeVars, stackVars, tempVars>>
notMerge == <<listVars, calcVars, decoVars, userVars, stackVars, tempVars>>
notTemp == <<listVars, calcVars, decoVars, userVars, mergeVars, stackVars>>
notStack == <<listVars, calcVars, decoVars, userVars, mergeVars, tempVars>>

----------------------------------------------------------------------------
(* Bounds *)

MaxNodes == 4           \* add calls per list
MaxValue == 2           \* the values added are 1..MaxValue

MaxAmount == 2          \* initialAmount ranges over -1..MaxAmount
MaxContribution == 1    \* annualContribution ranges over -1..MaxContribution
MaxReturn == 2          \* expectedReturn ranges over -1..MaxReturn
MaxDuration == 2        \* duration ranges over -1..MaxDuration

MaxPersons == 2         \* instances of Person created
MaxLines == 6           \* console lines written after the class definition

MaxNameLen == 2         \* length of the names assigned to User2

MaxPropValue == 2       \* property values of the merged objects are 1..MaxPropValue

MaxPushes == 4          \* pushes carried out on one stack
MaxItem == 2            \* the items pushed are 1..MaxItem
MaxLimit == 2           \* the limit of a LimitedStack ranges over -1..MaxLimit

MaxDelta == 2           \* temperatures assigned lie within MaxDelta hundredths
                        \* of a degree of absolute zero (or are 0, 25, 32, 77)

----------------------------------------------------------------------------
(* section9/linked-list.ts *)

Values == 1..MaxValue

\* An optional reference that is not set (next?: ..., root?: ..., tail?: ...).
Undefined == 0

\* new ListNode(value): the constructor stores value, next is left unset.
ListNode(value) == [value |-> value, next |-> Undefined]

\* this.length++, the last statement of add (and, first, the variant that
\* counts only the add made on an empty list).
IncrementOnlyWhenEmpty(len) == IF len = 0 THEN 1 ELSE len
Increment(len) == len + 1

ListInit ==
    /\ nodes = <<>>
    /\ root = Undefined
    /\ tail = Undefined
    /\ length = 0
    /\ added = <<>>
    /\ listOp = "new"
    /\ printed = <<>>
    /\ returned = 0

\* LinkedList.add(value)
add(value) ==
    /\ Len(nodes) < MaxNodes
    /\ LET node == Len(nodes) + 1
           heap == Append(nodes, ListNode(value))
       IN  IF root = Undefined \/ tail = Undefined
           THEN /\ nodes' = heap
                /\ root' = node
                /\ tail' = node
           ELSE /\ nodes' = [heap EXCEPT ![tail].next = node]
                /\ UNCHANGED <<root, tail>>
    /\ length' = Increment(length)
    /\ added' = Append(added, value)
    /\ listOp' = "add"
    /\ UNCHANGED <<printed, returned>>
    /\ UNCHANGED notList

\* LinkedList.getNumberOfElements()
getNumberOfElements ==
    /\ returned' = length
    /\ listOp' = "getNumberOfElements"
    /\ UNCHANGED <<nodes, root, tail, length, added, printed>>
    /\ UNCHANGED notList

\* The loop of print: the values logged starting at node current.
RECURSIVE Visit(_)
Visit(current) ==
    IF current = Undefined
    THEN <<>>
    ELSE <<nodes[current].value>> \o Visit(nodes[current].next)

\* LinkedList.print()
print ==
    /\ printed' = Visit(root)
    /\ listOp' = "print"
    /\ UNCHANGED <<nodes, root, tail, length, added, returned>>
    /\ UNCHANGED notList

NextList ==
    \/ \E value \in Values : add(value)
    \/ getNumberOfElements
    \/ print

----------------------------------------------------------------------------
(* section4/calculator.ts *)

\* type InvestmentData, over integral amounts, rates and durations (numbers
\* for which the arithmetic of the loop is exact).
InvestmentData ==
    [initialAmount : (-1)..MaxAmount,
     annualContribution : (-1)..MaxContribution,
     expectedReturn : (-1)..MaxReturn,
     duration : (-1)..MaxDuration]

\* type CalculationResult = InvestmentResult[] | string, as a tagged value:
\* typeof r === "string" is r.type = "string".
String(message) == [type |-> "string", value |-> message]
Array(elements) == [type |-> "object", value |-> elements]
\* const results before its initializer has run.
NotAssigned == [type |-> "undefined", value |-> <<>>]

\* The three guards of calculateInvestment, each preceded by a faulty variant
\* (<= for <, and the guard left out).
InitialAmountNotPositive(initialAmount) == initialAmount <= 0
InitialAmountInvalid(initialAmount) == initialAmount < 0

DurationNotPositive(duration) == duration <= 0
DurationInvalid(duration) == duration < 0

ExpectedReturnUnchecked(expectedReturn) == FALSE
ExpectedReturnInvalid(expectedReturn) == expectedReturn <= 0

\* The for loop of calculateInvestment, from iteration i on.
RECURSIVE YearLoop(_, _, _, _, _)
YearLoop(data, i, total, totalContributions, annualResults) ==
    IF ~(i < data.duration)
    THEN annualResults
    ELSE LET grown == total * (1 + data.expectedReturn)
             totalInterestEarned == grown - totalContributions - data.initialAmount
             contributed == totalContributions + data.annualContribution
             newTotal == grown + data.annualContribution
         IN  YearLoop(data, i + 1, newTotal, contributed,
                      Append(annualResults,
                             [year |-> <<"Year", i + 1>>,
                              totalAmount |-> newTotal,
                              totalInterestEarned |-> totalInterestEarned,
                              totalContributions |-> contributed]))

calculateInvestment(data) ==
    IF InitialAmountInvalid(data.initialAmount)
    THEN String("Initial investment amount must be at least zero")
    ELSE IF DurationInvalid(data.duration)
    THEN String("No valid amount of years provided")
    ELSE IF ExpectedReturnInvalid(data.expectedReturn)
    THEN String("Expected result must be at least zero")
    ELSE Array(YearLoop(data, 0, data.initialAmount, 0, <<>>))

\* The lines printResults logs for one yearly result.
YearLines(yearEndResult) ==
    << <<"Year: ", yearEndResult.year>>,
       <<"Total: ", yearEndResult.totalAmount>>,
       <<"Total contributions: ", yearEndResult.totalContributions>>,
       <<"Total interest earned: ", yearEndResult.totalInterestEarned>>,
       <<"--------------------">> >>

RECURSIVE AllYearLines(_)
AllYearLines(list) ==
    IF list = <<>> THEN <<>> ELSE YearLines(Head(list)) \o AllYearLines(Tail(list))

\* What printResults(r) writes to the console.
printResults(r) ==
    IF r.type = "string" THEN << <<r.value>> >> ELSE AllYearLines(r.value)

CalcInit ==
    /\ investment \in InvestmentData
    /\ results = NotAssigned
    /\ calcConsole = <<>>
    /\ calcPc = "start"

\* The calculator script before it runs, on one fixed input.
CalcIdle ==
    /\ investment = [initialAmount |-> 0, annualContribution |-> 0,
                     expectedReturn |-> 0, duration |-> 0]
    /\ results = NotAssigned
    /\ calcConsole = <<>>
    /\ calcPc = "start"

\* const results = calculateInvestment(investment);
CallCalculateInvestment ==
    /\ calcPc = "start"
    /\ results' = calculateInvestment(investment)
    /\ calcPc' = "calculated"
    /\ UNCHANGED <<investment, calcConsole>>
    /\ UNCHANGED notCalc

\* printResults(results);
CallPrintResults ==
    /\ calcPc = "calculated"
    /\ calcConsole' = printResults(results)
    /\ calcPc' = "printed"
    /\ UNCHANGED <<investment, results>>
    /\ UNCHANGED notCalc

NextCalc ==
    \/ CallCalculateInvestment
    \/ CallPrintResults

----------------------------------------------------------------------------
(* unnamed/part_002: the decorators logger and autobind, and class Person *)

\* The name Person before the class definition has been evaluated.
NoClass == [defined |-> FALSE]

\* class Person { name = "Silver"; constructor() { this.greet = ... } greet() }
\* as written: the field initializers, the properties its constructor
\* assigns, the methods on its prototype, what its constructors log.
Person ==
    [defined |-> TRUE,
     fields |-> << [key |-> "name", value |-> "Silver"] >>,
     assigned |-> << [key |-> "greet", value |-> "bound greet"] >>,
     methods |-> {"greet"},
     constructorLog |-> <<>>]

\* What autobind(target, ctx) logs; it returns nothing, so the method stays.
autobindLog == << <<"[Function: greet]">>, <<"ClassMethodDecoratorContext", "greet">> >>

\* What logger(target, ctx) logs.
loggerLog ==
    << <<"Target...">>, <<"[class Person]">>,
       <<"Context...">>, <<"ClassDecoratorContext", "Person">> >>

\* What logger(target, ctx) returns: class extends target, whose constructor
\* calls super(...args) and logs "class constructor"; it declares no field
\* and no method of its own.
logger(target) ==
    [target EXCEPT !.constructorLog = @ \o << <<"class constructor">> >>]

\* new C(): the field initializers run, then the constructor's assignments.
\* An object is its own properties, in insertion order, and the methods of
\* its prototype chain.
Construct(C) == [own |-> C.fields \o C.assigned, methods |-> C.methods]

HasOwn(obj, key) == \E i \in 1..Len(obj.own) : obj.own[i].key = key
HasProperty(obj, key) == HasOwn(obj, key) \/ key \in obj.methods
Get(obj, key) == obj.own[CHOOSE i \in 1..Len(obj.own) : obj.own[i].key = key].value

\* console.log(obj): the names of the own properties of obj.
Inspect(obj) == <<"Person">> \o [i \in 1..Len(obj.own) |-> obj.own[i].key]

DecoInit ==
    /\ PersonBinding = NoClass
    /\ loggerCalls = 0
    /\ autobindCalls = 0
    /\ persons = <<>>
    /\ decoConsole = <<>>

\* The console can take another line.
ConsoleOpen == Len(decoConsole) < Len(autobindLog) + Len(loggerLog) + MaxLines

\* Evaluation of the class definition "@logger class Person { @autobind
\* greet() ... }": the method decorator is applied, then the class decorator,
\* and Person is bound to what the class decorator returned.
DefinePerson ==
    /\ ~PersonBinding.defined
    /\ autobindCalls' = autobindCalls + 1
    /\ loggerCalls' = loggerCalls + 1
    /\ decoConsole' = decoConsole \o autobindLog \o loggerLog
    /\ PersonBinding' = logger(Person)
    /\ UNCHANGED persons
    /\ UNCHANGED notDeco

\* const person = new Person();
NewPerson ==
    /\ PersonBinding.defined
    /\ Len(persons) < MaxPersons
    /\ ConsoleOpen
    /\ persons' = Append(persons, Construct(PersonBinding))
    /\ decoConsole' = decoConsole \o PersonBinding.constructorLog
    /\ UNCHANGED <<PersonBinding, loggerCalls, autobindCalls>>
    /\ UNCHANGED notDeco

\* console.log(person);
LogPerson(i) ==
    /\ ConsoleOpen
    /\ decoConsole' = Append(decoConsole, Inspect(persons[i]))
    /\ UNCHANGED <<PersonBinding, loggerCalls, autobindCalls, persons>>
    /\ UNCHANGED notDeco

\* const greet = person.greet; greet();   (greet is bound to its instance)
Greet(i) ==
    /\ ConsoleOpen
    /\ decoConsole' = Append(decoConsole, <<"Hello, my name is ", Get(persons[i], "name")>>)
    /\ UNCHANGED <<PersonBinding, loggerCalls, autobindCalls, persons>>
    /\ UNCHANGED notDeco

NextDeco ==
    \/ DefinePerson
    \/ NewPerson
    \/ \E i \in 1..Len(persons) : LogPerson(i)
    \/ \E i \in 1..Len(persons) : Greet(i)

----------------------------------------------------------------------------
(* section6/src/interfaces/interfaces.ts: class User2 *)

\* Strings are sequences of characters.
WhiteSpace == {" ", "\t"}
Chars == WhiteSpace \cup {"a"}
Names == UNION {[1..n -> Chars] : n \in 0..MaxNameLen}

\* String.prototype.trim: strips the white space at both ends.
RECURSIVE trimStart(_)
trimStart(str) ==
    IF str # <<>> /\ Head(str) \in WhiteSpace THEN trimStart(Tail(str)) ELSE str

RECURSIVE trimEnd(_)
trimEnd(str) ==
    IF str # <<>> /\ str[Len(str)] \in WhiteSpace
    THEN trimEnd(SubSeq(str, 1, Len(str) - 1))
    ELSE str

trim(str) == trimEnd(trimStart(str))

\* The test of both setters: name.trim() === ""  (and, first, the variant
\* that forgets to trim).
IsEmptyUntrimmed(name) == name = <<>>
IsInvalidName(name) == trim(name) = <<>>

UserInit ==
    /\ _firstName = <<>>
    /\ _lastName = <<>>
    /\ userOp = [op |-> "new", arg |-> <<>>]
    /\ thrown = "none"

\* set firstName(name)
firstName(name) ==
    /\ userOp' = [op |-> "firstName", arg |-> name]
    /\ IF IsInvalidName(name)
       THEN /\ thrown' = "Invalid name"
            /\ UNCHANGED <<_firstName, _lastName>>
       ELSE /\ _firstName' = name
            /\ thrown' = "none"
            /\ UNCHANGED _lastName
    /\ UNCHANGED notUser

\* set lastName(name)
lastName(name) ==
    /\ userOp' = [op |-> "lastName", arg |-> name]
    /\ IF IsInvalidName(name)
       THEN /\ thrown' = "Invalid name"
            /\ UNCHANGED <<_firstName, _lastName>>
       ELSE /\ _lastName' = name
            /\ thrown' = "none"
            /\ UNCHANGED _firstName
    /\ UNCHANGED notUser

\* get fullName()
fullName == _firstName \o <<" ">> \o _lastName

NextUser ==
    \/ \E name \in Names : firstName(name)
    \/ \E name \in Names : lastName(name)

----------------------------------------------------------------------------
(* section8/generics.ts: mergeObj *)

\* The property names of the objects handed to mergeObj.
Keys == {"username", "age"}
PropValues == 1..MaxPropValue

\* An object is the sequence of its own properties [key, value], in
\* insertion order, with no key twice.
ObjectsWithKeys(n) ==
    {o \in [1..n -> [key : Keys, value : PropValues]] :
        \A i, j \in 1..n : o[i].key = o[j].key => i = j}
Objects == UNION {ObjectsWithKeys(n) : n \in 0..Cardinality(Keys)}

Has(obj, key) == \E i \in 1..Len(obj) : obj[i].key = key

\* obj[key] = value: an existing property keeps its place and takes the new
\* value, a new one is added at the end.
Put(obj, key, value) ==
    IF Has(obj, key)
    THEN [i \in 1..Len(obj) |->
            IF obj[i].key = key THEN [key |-> key, value |-> value] ELSE obj[i]]
    ELSE Append(obj, [key |-> key, value |-> value])

\* The spread ...source inside an object literal that holds target so far:
\* the own properties of source are copied one by one, in order.
RECURSIVE Spread(_, _)
Spread(target, source) ==
    IF source = <<>>
    THEN target
    ELSE Spread(Put(target, Head(source).key, Head(source).value), Tail(source))

\* The object literal { ...a, ...b } (and, first, the variant that spreads
\* b before a).
SpreadBThenA(a, b) == Spread(Spread(<<>>, b), a)
mergeObj(a, b) == Spread(Spread(<<>>, a), b)

MergeInit ==
    /\ objects \in [1..2 -> Objects]
    /\ argA = Undefined
    /\ argB = Undefined
    /\ merged = Undefined
    /\ mergePc = "start"

\* No object exists: the snippet is not run.
MergeIdle ==
    /\ objects = <<>>
    /\ argA = Undefined
    /\ argB = Undefined
    /\ merged = Undefined
    /\ mergePc = "start"

\* Object.assign(a, b): copies into a and returns a (the variant of the call
\* that does not build a new object).
AssignIntoA(x, y) ==
    /\ mergePc = "start"
    /\ objects' = [objects EXCEPT ![x] = Spread(objects[x], objects[y])]
    /\ argA' = x
    /\ argB' = y
    /\ merged' = x
    /\ mergePc' = "merged"
    /\ UNCHANGED notMerge

\* const merged = mergeObj(x, y): the object literal creates a new object.
CallMergeObj(x, y) ==
    /\ mergePc = "start"
    /\ objects' = Append(objects, mergeObj(objects[x], objects[y]))
    /\ argA' = x
    /\ argB' = y
    /\ merged' = Len(objects) + 1
    /\ mergePc' = "merged"
    /\ UNCHANGED notMerge

\* merged[key] = value: a later write to a top-level key of the result.
WriteMerged(key, value) ==
    /\ mergePc \in {"merged", "modified"}
    /\ objects' = [objects EXCEPT ![merged] = Put(@, key, value)]
    /\ mergePc' = "modified"
    /\ UNCHANGED <<argA, argB, merged>>
    /\ UNCHANGED notMerge

NextMerge ==
    \/ \E x, y \in 1..Len(objects) : CallMergeObj(x, y)
    \/ \E key \in Keys, value \in PropValues : WriteMerged(key, value)

----------------------------------------------------------------------------
(* section8/README.md: Stack<T>, NumberStack, LimitedStack<T> *)

Items == 1..MaxItem
Limits == (-1)..MaxLimit

\* No Error was thrown / the Error of LimitedStack.push.
NoError == <<>>
StackFull(n) == <<"Stack is full (limit: ", n, ")">>

\* Array.prototype.push and Array.prototype.pop on the array arr; pop gives
\* the array left and the value returned (undefined on an empty array).
\* First, Array.prototype.shift, which takes the first element instead.
ArrayPush(arr, item) == Append(arr, item)
ArrayShift(arr) ==
    IF arr = <<>>
    THEN [array |-> arr, value |-> Undefined]
    ELSE [array |-> Tail(arr), value |-> Head(arr)]
ArrayPop(arr) ==
    IF arr = <<>>
    THEN [array |-> arr, value |-> Undefined]
    ELSE [array |-> SubSeq(arr, 1, Len(arr) - 1), value |-> arr[Len(arr)]]

\* arr[index] for a 0-based index: undefined outside the array.
ArrayAt(arr, index) ==
    IF index + 1 \in 1..Len(arr) THEN arr[index + 1] ELSE Undefined

\* The guard of LimitedStack.push: this.size >= this.limit (and, first, the
\* variant with >).
LimitExceeded(size, lim) == size > lim
LimitReached(size, lim) == size >= lim

\* [...Array(n)]: n elements, all undefined.
ArrayOfUndefined(n) == [i \in 1..n |-> Undefined]

\* The callback NumberStack.sum hands to reduce: (acc) => acc.
SumCallback(acc, current) == acc

\* arr.reduce(SumCallback, acc)
RECURSIVE Reduce(_, _)
Reduce(arr, acc) ==
    IF arr = <<>> THEN acc ELSE Reduce(Tail(arr), SumCallback(acc, Head(arr)))

\* new Stack() / new NumberStack() / new LimitedStack(lim)
StackNew(class, lim) ==
    /\ stackClass = class
    /\ limit = lim
    /\ items = <<>>
    /\ stackOp = [op |-> "new", arg |-> Undefined]
    /\ stackRet = Undefined
    /\ stackThrown = NoError
    /\ pushLog = <<>>
    /\ poppedIdx = {}

StackInit == StackNew("Stack", Undefined)
NumberStackInit == StackNew("NumberStack", Undefined)
LimitedStackInit == \E lim \in Limits : StackNew("LimitedStack", lim)

\* The positions of pushLog no pop has taken yet.
Unpopped == (1..Len(pushLog)) \ poppedIdx
Latest(S) == CHOOSE i \in S : \A j \in S : j <= i

\* push(item): Stack.push, or LimitedStack.push, which throws when the limit
\* is reached and calls super.push otherwise.
push(item) ==
    /\ Len(pushLog) < MaxPushes
    /\ stackOp' = [op |-> "push", arg |-> item]
    /\ stackRet' = Undefined
    /\ IF stackClass = "LimitedStack" /\ LimitReached(Len(items), limit)
       THEN /\ stackThrown' = StackFull(limit)
            /\ UNCHANGED <<items, pushLog>>
       ELSE /\ items' = ArrayPush(items, item)
            /\ stackThrown' = NoError
            /\ pushLog' = Append(pushLog, item)
    /\ UNCHANGED <<stackClass, limit, poppedIdx>>
    /\ UNCHANGED notStack

\* pop()
pop ==
    /\ stackOp' = [op |-> "pop", arg |-> Undefined]
    /\ items' = ArrayPop(items).array
    /\ stackRet' = ArrayPop(items).value
    /\ stackThrown' = NoError
    /\ poppedIdx' = IF Unpopped = {} THEN poppedIdx
                    ELSE poppedIdx \cup {Latest(Unpopped)}
    /\ UNCHANGED <<stackClass, limit, pushLog>>
    /\ UNCHANGED notStack

\* peek()
peek ==
    /\ stackOp' = [op |-> "peek", arg |-> Undefined]
    /\ stackRet' = ArrayAt(items, Len(items) - 1)
    /\ stackThrown' = NoError
    /\ UNCHANGED <<stackClass, limit, items, pushLog, poppedIdx>>
    /\ UNCHANGED notStack

\* get size()
size ==
    /\ stackOp' = [op |-> "size", arg |-> Undefined]
    /\ stackRet' = Len(items)
    /\ stackThrown' = NoError
    /\ UNCHANGED <<stackClass, limit, items, pushLog, poppedIdx>>
    /\ UNCHANGED notStack

\* isEmpty()
isEmpty ==
    /\ stackOp' = [op |-> "isEmpty", arg |-> Undefined]
    /\ stackRet' = (Len(items) = 0)
    /\ stackThrown' = NoError
    /\ UNCHANGED <<stackClass, limit, items, pushLog, poppedIdx>>
    /\ UNCHANGED notStack

\* NumberStack.sum()
sum ==
    /\ stackClass = "NumberStack"
    /\ stackOp' = [op |-> "sum", arg |-> Undefined]
    /\ stackRet' = Reduce(ArrayOfUndefined(Len(items)), 0)
    /\ stackThrown' = NoError
    /\ UNCHANGED <<stackClass, limit, items, pushLog, poppedIdx>>
    /\ UNCHANGED notStack

NextStack ==
    \/ \E item \in Items : push(item)
    \/ pop
    \/ peek
    \/ size
    \/ isEmpty

NextNumberStack ==
    \/ NextStack
    \/ sum

----------------------------------------------------------------------------
(* section6/README.md: Temperature *)

\* Numbers are exact fractions: the number n/d is the integer n * Scale / d.
\* With this Scale the hundredths of a degree, and what both conversions
\* make of them, are whole (the rounding of floating point is left out).
Scale == 4500
Num(n, d) == (n * Scale) \div d

\* -273.15
AbsoluteZero == Num(-27315, 100)

\* The values assigned: hundredths of a degree around absolute zero on either
\* scale, and the temperatures of the example.
CelsiusInputs ==
    {Num(-27315 + d, 100) : d \in (-MaxDelta)..MaxDelta} \cup {Num(0, 1), Num(25, 1)}
FahrenheitInputs ==
    {Num(-45967 + d, 100) : d \in (-MaxDelta)..MaxDelta} \cup {Num(32, 1), Num(77, 1)}

\* ((value - 32) * 5) / 9   and   (celsius * 9) / 5 + 32
ToCelsius(value) == ((value - Num(32, 1)) * 5) \div 9
ToFahrenheit(celsius) == (celsius * 9) \div 5 + Num(32, 1)

\* The body of set celsius(value), on the stored value: what is stored and
\* what is thrown.
AssignCelsius(stored, value) ==
    IF value < AbsoluteZero
    THEN [celsius |-> stored, thrown |-> "Temperature below absolute zero!"]
    ELSE [celsius |-> value, thrown |-> "none"]

\* The body of set fahrenheit(value): it assigns through the celsius setter
\* (and, first, the variant that writes the field itself).
AssignFieldFromFahrenheit(stored, value) ==
    [celsius |-> ToCelsius(value), thrown |-> "none"]
AssignFahrenheit(stored, value) == AssignCelsius(stored, ToCelsius(value))

TempInit ==
    /\ _celsius = Num(0, 1)
    /\ tempOp = [op |-> "new", arg |-> Num(0, 1)]
    /\ tempRet = Num(0, 1)
    /\ tempThrown = "none"

\* temp.celsius = value
celsiusSetter(value) ==
    /\ tempOp' = [op |-> "set celsius", arg |-> value]
    /\ _celsius' = AssignCelsius(_celsius, value).celsius
    /\ tempThrown' = AssignCelsius(_celsius, value).thrown
    /\ UNCHANGED tempRet
    /\ UNCHANGED notTemp

\* temp.fahrenheit = value
fahrenheitSetter(value) ==
    /\ tempOp' = [op |-> "set fahrenheit", arg |-> value]
    /\ _celsius' = AssignFahrenheit(_celsius, value).celsius
    /\ tempThrown' = AssignFahrenheit(_celsius, value).thrown
    /\ UNCHANGED tempRet
    /\ UNCHANGED notTemp

\* temp.celsius
celsiusGetter ==
    /\ tempOp' = [op |-> "get celsius", arg |-> Num(0, 1)]
    /\ tempRet' = _celsius
    /\ tempThrown' = "none"
    /\ UNCHANGED _celsius
    /\ UNCHANGED notTemp

\* temp.fahrenheit
fahrenheitGetter ==
    /\ tempOp' = [op |-> "get fahrenheit", arg |-> Num(0, 1)]
    /\ tempRet' = ToFahrenheit(_celsius)
    /\ tempThrown' = "none"
    /\ UNCHANGED _celsius
    /\ UNCHANGED notTemp

NextTemp ==
    \/ \E value \in CelsiusInputs : celsiusSetter(value)
    \/ \E value \in FahrenheitInputs : fahrenheitSetter(value)
    \/ celsiusGetter
    \/ fahrenheitGetter

----------------------------------------------------------------------------
(* Specifications *)

InitList == ListInit /\ CalcIdle /\ DecoInit /\ UserInit /\ MergeIdle /\ StackInit /\ TempInit
SpecList == InitList /\ [][NextList]_vars

InitCalc == ListInit /\ CalcInit /\ DecoInit /\ UserInit /\ MergeIdle /\ StackInit /\ TempInit
SpecCalc == InitCalc /\ [][NextCalc]_vars

InitDeco == ListInit /\ CalcIdle /\ DecoInit /\ UserInit /\ MergeIdle /\ StackInit /\ TempInit
SpecDeco == InitDeco /\ [][NextDeco]_vars

InitUser == ListInit /\ CalcIdle /\ DecoInit /\ UserInit /\ MergeIdle /\ StackInit /\ TempInit
SpecUser == InitUser /\ [][NextUser]_vars

InitMerge == ListInit /\ CalcIdle /\ DecoInit /\ UserInit /\ MergeInit /\ StackInit /\ TempInit
SpecMerge == InitMerge /\ [][NextMerge]_vars

Idle == ListInit /\ CalcIdle /\ DecoInit /\ UserInit /\ MergeIdle /\ TempInit

InitStack == Idle /\ StackInit
SpecStack == InitStack /\ [][NextStack]_vars

InitNumberStack == Idle /\ NumberStackInit
SpecNumberStack == InitNumberStack /\ [][NextNumberStack]_vars

InitLimitedStack == Idle /\ LimitedStackInit
SpecLimitedStack == InitLimitedStack /\ [][NextStack]_vars

InitTemp == ListInit /\ CalcIdle /\ DecoInit /\ UserInit /\ MergeIdle /\ StackInit /\ TempInit
SpecTemp == InitTemp /\ [][NextTemp]_vars

----------------------------------------------------------------------------
(* Claims about LinkedList *)

\* The references of the nodes visited by following next links from current.
RECURSIVE Chain(_)
Chain(current) ==
    IF current = Undefined
    THEN <<>>
    ELSE <<current>> \o Chain(nodes[current].next)

\* C1: print outputs every value that was added, once each and in insertion
\* order: the values visited from root are exactly the arguments of the add
\* calls, in the order of the calls.
C1_PrintVisitsAllAdded ==
    /\ Visit(root) = added
    /\ listOp = "print" => printed = added

\* C2: after one or more add calls, tail is the node holding the most recently
\* added value, tail.next is unset, and tail is reachable from root.
C2_TailIsLastNode ==
    Len(added) >= 1 =>
        /\ tail = Len(nodes)
        /\ nodes[tail].value = added[Len(added)]
        /\ nodes[tail].next = Undefined
        /\ \E i \in 1..Len(Chain(root)) : Chain(root)[i] = tail

\* C3: getNumberOfElements returns the number of add calls made so far: 0 for
\* a fresh list, one more after every add, unchanged by getNumberOfElements
\* and print.
C3_LengthCountsAdds ==
    /\ [](length = Len(added))
    /\ [](listOp = "new" => length = 0)
    /\ [](listOp = "getNumberOfElements" => returned = Len(added))
    /\ [][ /\ listOp' = "add" => length' = length + 1
           /\ listOp' \in {"getNumberOfElements", "print"} => length' = length ]_vars

C3_Witness ==
    /\ listOp = "getNumberOfElements"
    /\ Len(added) = 3
    /\ returned = 3

----------------------------------------------------------------------------
(* Claims about calculateInvestment *)

Calculated == calcPc \in {"calculated", "printed"}

\* C4: only a negative expected return is rejected: with initialAmount >= 0
\* and duration >= 0 every expectedReturn >= 0, zero included, yields yearly
\* results, and "Expected result must be at least zero" is returned only when
\* expectedReturn < 0.
C4_ZeroReturnAccepted ==
    Calculated =>
        /\ ( /\ investment.initialAmount >= 0
             /\ investment.duration >= 0
             /\ investment.expectedReturn >= 0 ) => results.type = "object"
        /\ results = String("Expected result must be at least zero")
               => investment.expectedReturn < 0

\* C5: the result is the string "Initial investment amount must be at least
\* zero" exactly when initialAmount < 0, whatever the other three fields are.
C5_NegativeInitialAmount ==
    Calculated =>
        ( results = String("Initial investment amount must be at least zero")
            <=> investment.initialAmount < 0 )

C5_Witness ==
    /\ Calculated
    /\ investment.initialAmount < 0
    /\ investment.duration < 0
    /\ investment.expectedReturn < 0
    /\ results = String("Initial investment amount must be at least zero")

\* C6: for initialAmount >= 0 the result is the string "No valid amount of
\* years provided" exactly when duration < 0, whatever expectedReturn and
\* annualContribution are; and it is never returned when duration >= 0.
C6_NegativeDuration ==
    Calculated =>
        /\ investment.initialAmount >= 0 =>
              ( results = String("No valid amount of years provided")
                  <=> investment.duration < 0 )
        /\ investment.duration >= 0 =>
              results # String("No valid amount of years provided")

C6_Witness ==
    /\ Calculated
    /\ investment.initialAmount >= 0
    /\ investment.duration < 0
    /\ investment.expectedReturn <= 0
    /\ results = String("No valid amount of years provided")

\* C7 as claimed: calculateInvestment has no error outcome, every input
\* yields a list of yearly results.
C7_NoErrorOutcome ==
    Calculated => results.type = "object"

\* C7 as amended: a list of yearly results is returned whenever
\* initialAmount >= 0, duration >= 0 and expectedReturn > 0, and an error
\* string whenever one of initialAmount, duration, expectedReturn is negative.
C7_ErrorOnNegativeInput ==
    Calculated =>
        /\ ( /\ investment.initialAmount >= 0
             /\ investment.duration >= 0
             /\ investment.expectedReturn > 0 ) => results.type = "object"
        /\ ( \/ investment.initialAmount < 0
             \/ investment.duration < 0
             \/ investment.expectedReturn < 0 ) => results.type = "string"

C7_Witness ==
    /\ Calculated
    /\ investment.initialAmount >= 0
    /\ investment.duration >= 0
    /\ investment.expectedReturn < 0
    /\ results.type = "string"

----------------------------------------------------------------------------
(* Claims about the decorated class Person *)

\* C8: the logger decorator is called when an instance of Person is created:
\* every new Person() causes one invocation of logger.
C8_LoggerRunsPerInstance ==
    [][Len(persons') = Len(persons) + 1 => loggerCalls' = loggerCalls + 1]_vars

\* C9: an instance created from the decorated Person class has the name
\* property, an age property and the greet method.
C9_InstanceHasAge ==
    \A i \in 1..Len(persons) :
        /\ HasProperty(persons[i], "name")
        /\ HasProperty(persons[i], "age")
        /\ HasProperty(persons[i], "greet")

----------------------------------------------------------------------------
(* Claims about User2 *)

\* A name that is empty or consists only of white space.
Blank(name) == \A i \in 1..Len(name) : name[i] \in WhiteSpace

\* C10: assigning a blank name to firstName or lastName throws
\* Error("Invalid name") and leaves both stored names unchanged; assigning a
\* name that is not blank does not throw (and stores it).
C10_BlankNameThrows ==
    [][ IF Blank(userOp'.arg)
        THEN /\ thrown' = "Invalid name"
             /\ _firstName' = _firstName
             /\ _lastName' = _lastName
        ELSE /\ thrown' = "none"
             /\ userOp'.op = "firstName" => _firstName' = userOp'.arg /\ _lastName' = _lastName
             /\ userOp'.op = "lastName" => _lastName' = userOp'.arg /\ _firstName' = _firstName
      ]_userVars

C10_Witness ==
    /\ userOp = [op |-> "lastName", arg |-> <<" ", "\t">>]
    /\ thrown = "Invalid name"
    /\ _firstName = <<"a", " ">>
    /\ _lastName = <<" ", "a">>

----------------------------------------------------------------------------
(* Claims about mergeObj *)

KeysOf(obj) == {obj[i].key : i \in 1..Len(obj)}
ValueOf(obj, key) == obj[CHOOSE i \in 1..Len(obj) : obj[i].key = key].value
SameProperties(o1, o2) ==
    /\ KeysOf(o1) = KeysOf(o2)
    /\ \A key \in KeysOf(o1) : ValueOf(o1, key) = ValueOf(o2, key)

\* C11: mergeObj(a, b) merges with "later wins": the keys of the result are
\* the union of the keys of a and b, a key of b carries b's value (also when
\* a has it), a key only in a carries a's value; so mergeObj(a, b) and
\* mergeObj(b, a) differ whenever a and b disagree on a shared key.
C11_LaterWins ==
    mergePc = "merged" =>
        LET a == objects[argA]
            b == objects[argB]
            r == objects[merged]
        IN  /\ KeysOf(r) = KeysOf(a) \cup KeysOf(b)
            /\ Len(r) = Cardinality(KeysOf(r))
            /\ \A key \in KeysOf(b) : ValueOf(r, key) = ValueOf(b, key)
            /\ \A key \in KeysOf(a) \ KeysOf(b) : ValueOf(r, key) = ValueOf(a, key)
            /\ (\E key \in KeysOf(a) \cap KeysOf(b) : ValueOf(a, key) # ValueOf(b, key))
                   => ~SameProperties(r, mergeObj(b, a))

C11_Witness ==
    /\ mergePc = "merged"
    /\ argA = 1
    /\ argB = 2
    /\ KeysOf(objects[1]) = Keys
    /\ KeysOf(objects[2]) = {"age"}
    /\ ValueOf(objects[1], "age") # ValueOf(objects[2], "age")
    /\ ValueOf(objects[merged], "age") = ValueOf(objects[2], "age")

\* C15: mergeObj(a, b) has no effect on its arguments: the result is a new
\* object, distinct from a and from b; a and b keep their keys and values
\* through the call and through later writes to the result's top-level keys.
C15_ArgumentsUntouched ==
    /\ [](mergePc # "start" => merged \notin {argA, argB} /\ merged \in 1..Len(objects))
    /\ [][\A ref \in 1..2 : objects'[ref] = objects[ref]]_vars

C15_Witness ==
    /\ mergePc = "modified"
    /\ argA = 1
    /\ argB = 2
    /\ objects[1] # <<>>
    /\ objects[2] # <<>>
    /\ ~SameProperties(objects[merged], mergeObj(objects[1], objects[2]))

----------------------------------------------------------------------------
(* Claims about Stack, LimitedStack and NumberStack *)

\* The item pushed most recently among those no pop has taken, undefined if
\* there is none; and how many there are.
MostRecentUnpopped ==
    IF Unpopped = {} THEN Undefined ELSE pushLog[Latest(Unpopped)]
Outstanding == Len(pushLog) - Cardinality(poppedIdx)

\* C12: Stack is last-in-first-out: pop returns and removes the most recently
\* pushed item not yet popped, peek returns it without removing it, both
\* return undefined on an empty stack and leave it empty, size is pushes
\* minus successful pops, and isEmpty() holds exactly when size is 0.
C12_LastInFirstOut ==
    /\ [](Len(items) = Outstanding)
    /\ [](stackOp.op = "size" => stackRet = Outstanding)
    /\ [](stackOp.op = "isEmpty" => stackRet = (Outstanding = 0))
    /\ [](stackOp.op = "peek" => stackRet = MostRecentUnpopped)
    /\ [][ /\ stackOp'.op = "pop" =>
                /\ stackRet' = MostRecentUnpopped
                /\ Len(items') = IF Outstanding = 0 THEN 0 ELSE Outstanding - 1
                /\ \A i \in 1..Len(items') : items'[i] = items[i]
           /\ stackOp'.op = "peek" => items' = items ]_vars

C12_Witness ==
    /\ stackOp.op = "pop"
    /\ pushLog = <<1, 2, 1>>
    /\ poppedIdx = {2, 3}
    /\ stackRet = 1
    /\ items = <<1>>

RECURSIVE SumOf(_)
SumOf(arr) == IF arr = <<>> THEN 0 ELSE Head(arr) + SumOf(Tail(arr))

\* C16: NumberStack.sum() returns the sum of the numbers currently on the
\* stack, after any sequence of push and pop calls (0 for an empty stack).
C16_SumOfItems ==
    stackOp.op = "sum" => stackRet = SumOf(items)

----------------------------------------------------------------------------
(* Claims about Temperature *)

\* -459.67 degrees Fahrenheit, absolute zero on that scale.
AbsoluteZeroFahrenheit == Num(-45967, 100)

\* C14: Temperature never stores a temperature below absolute zero: the
\* stored celsius value is >= -273.15 after any sequence of assignments to
\* celsius and fahrenheit, and an assignment through either setter that
\* would put it below throws "Temperature below absolute zero!" and leaves
\* the stored value unchanged.
C14_NeverBelowAbsoluteZero ==
    /\ [](_celsius >= AbsoluteZero)
    /\ [][ /\ (tempOp'.op = "set celsius" /\ tempOp'.arg < AbsoluteZero) =>
                (tempThrown' = "Temperature below absolute zero!" /\ _celsius' = _celsius)
           /\ (tempOp'.op = "set fahrenheit" /\ tempOp'.arg < AbsoluteZeroFahrenheit) =>
                (tempThrown' = "Temperature below absolute zero!" /\ _celsius' = _celsius)
         ]_vars

\* An assignment to fahrenheit below absolute zero was refused, and the
\* value stored before, absolute zero itself, is still there.
C14_Witness ==
    /\ tempOp.op = "set fahrenheit"
    /\ tempOp.arg < AbsoluteZeroFahrenheit
    /\ tempThrown = "Temperature below absolute zero!"
    /\ _celsius = AbsoluteZero

====
